---- MODULE Spec2Model ----
(***************************************************************************)
(* Model of the VisualPP benchmark engine.                                 *)
(*                                                                         *)
(* Two implementations of the two-tier store and of runBenchmark exist in  *)
(* the repository:                                                         *)
(*   "map"   : frontend/src/lib/mockKVService.js, Map-based redis/db       *)
(*   "class" : the KVDatabase/KVRedis classes and the runBenchmark that    *)
(*             follows them (BenchmarkForm.js lines 1530-1793)             *)
(* A behaviour loads one of them (impl) and makes up to MaxRuns            *)
(* runBenchmark calls one after another on the shared stores.  Every await *)
(* of a storage call is a suspension point: the call is begun by one step  *)
(* and ended by another.                                                   *)
(*                                                                         *)
(* Specifications:                                                         *)
(*   Spec        : runBenchmark calls on the shared tiers                  *)
(*   SpecSplit   : the split of a mixed run into setOps and getOps, in     *)
(*                 double arithmetic, for ratios of larger weights         *)
(*   SpecTiers   : a caller of set, del and flushAll / clear on the tiers  *)
(*   SpecResults : the results API handler and the dashboard posting to it *)
(*   SpecApi     : clients of the results handler and of the benchmark     *)
(*                 handler with requests in flight together                *)
(*   SpecCallers : concurrent callers of the Map-based cached tier         *)
(*   SpecForm    : runAllBenchmarks of BenchmarkForm under any parent,     *)
(*                 with weak fairness of its continuation and its timer    *)
(*   SpecDashboard : Home with BenchmarkForm, runBenchmark and the two     *)
(*                 handlers, under outages of network, server and disk     *)
(***************************************************************************)
EXTENDS Integers, Sequences, FiniteSets, TLC

(* ------------------------------ bounds -------------------------------- *)
MaxRequests == 2
MaxSize == 1
\* runBenchmark calls made over the life of the process
MaxRuns == 2
\* the weights of a ratio and the request count the split of a mixed run is
\* computed for
MaxWeight == 15
MaxSplitRequests == 22
\* results API: records in the results file, ids generated, clock values
MaxResults == 3
MaxGenerated == 2
MaxClock == 1
\* set calls a client of the tiers makes on one tier
MaxTierSets == 2
\* concurrent callers of the cached tier
MaxCallers == 2
\* concurrent clients of the API handlers
MaxClients == 2
\* clicks on Run Test and Run All Benchmarks, and outages of the network, of
\* the server and of the file system, in one behaviour of the dashboard
MaxClicks == 2
MaxFaults == 1
\* Math.random() returns r / RandDen for some r in 0 .. RandDen-1, so a draw
\* is always in [0, 1).
RandDen == 2

VARIABLES
    impl,        \* which module is loaded: "map" or "class"
    redisStore,  \* mockKVService.js: const redisStore = new Map()
    redisCache,  \* mockKVService.js: const redisCache = new Map()
    dbStore,     \* mockKVService.js: const dbStore = new Map()
    kvRedis,     \* the KVRedis instance: [store, cache]
    kvDb,        \* the KVDatabase instance: [store]
    config,      \* the config of the current (or last) runBenchmark call
    pc,          \* position of the runBenchmark call
    i,           \* loop variable of the current loop
    setOps,      \* mixed run: const setOps
    getOps,      \* mixed run: const getOps
    setCount,    \* mixed run: let setCount
    getCount,    \* mixed run: let getCount
    op,          \* the storage call in flight, or the last one completed
    setCalls,    \* per tier: set calls issued by the current run
    getCalls,    \* per tier: get calls issued by the current run
    setsDone,    \* set calls of the current run that have completed
    written,     \* history: keys whose set call the current run has issued
    result,      \* the value the last runBenchmark call returned
    runs,        \* number of runBenchmark calls made so far
    allValid,    \* history: every config passed so far was a valid one
    inFlight,    \* storage calls begun and not yet returned
    elapsed,     \* ms the timers awaited by the current run took at least
    wrote,       \* history, per tier: keys of the set calls completed so far
    resultsFile, \* results API: the content of RESULTS_FILE, no file being <<>>
    status,      \* results API: the status of the last response
    nextId,      \* results API: how many ids were generated so far
    now,         \* dashboard: Date.now()
    request,     \* API handlers: the last request served (history)
    response,    \* API handlers: the body of the last response
    inbox,       \* per client: the POST sent and not yet handled
    answered,    \* history: the records answered with 201
    callers,     \* per caller of the tiers: the call awaiting its delay
    parent,      \* BenchmarkForm: who renders it and so what onSubmit is
    runningBenchmark, \* BenchmarkForm: state runningBenchmark
    progress,    \* BenchmarkForm: state progress
    formPc,      \* position of the runAllBenchmarks call
    formI,       \* runAllBenchmarks: loop variable i
    promises,    \* per predefined test: the promise its onSubmit returned
    onSubmit,    \* the onSubmit prop runAllBenchmarks closed over
    detached,    \* the form running runAllBenchmarks has been unmounted
    homeResults, \* Home: state results
    isLoading,   \* Home: state isLoading
    activeTab,   \* Home: state activeTab
    call,        \* Home: the runBenchmark call in progress, or the last one
    expected,    \* history: Home's results plus every result of a run
    faults,      \* the outage going on and the outages begun so far
    clicks       \* clicks on Run Test and Run All Benchmarks so far

vars == <<impl, redisStore, redisCache, dbStore, kvRedis, kvDb, config, pc, i,
          setOps, getOps, setCount, getCount, op, setCalls, getCalls,
          setsDone, written, result, runs, allValid, inFlight, elapsed,
          wrote, resultsFile, status, nextId, now, request, response, inbox,
          answered, callers, parent, runningBenchmark, progress, formPc,
          formI, promises, onSubmit, detached, homeResults, isLoading,
          activeTab, call, expected, faults, clicks>>

stores == <<redisStore, redisCache, dbStore, kvRedis, kvDb>>
resultsVars == <<resultsFile, status, nextId, now>>
apiVars == <<request, response>>
postVars == <<inbox, answered>>
formVars == <<parent, runningBenchmark, progress, formPc, formI, promises,
              onSubmit, detached>>
callVars == <<homeResults, isLoading, activeTab, call, expected, faults>>
homeVars == <<callVars, clicks>>
pageVars == <<formVars, homeVars>>
webVars == <<apiVars, postVars, callers, pageVars>>
mixedVars == <<setOps, getOps, setCount, getCount>>

(* --------------------------- JS primitives ---------------------------- *)
Impls == {"map", "class"}
Tiers == {"redis", "db"}

\* a JS Map / plain object is a function whose DOMAIN is the set of its keys
EmptyMap == <<>>
MapHas(m, k) == k \in DOMAIN m
MapSet(m, k, v) == [x \in (DOMAIN m) \cup {k} |-> IF x = k THEN v ELSE m[x]]
MapDelete(m, k) == [x \in (DOMAIN m) \ {k} |-> m[x]]

\* what a storage call returns: a string value, null or undefined
Val(v) == [tag |-> "value", value |-> v]
Null == [tag |-> "null", value |-> <<>>]
Undefined == [tag |-> "undefined", value |-> <<>>]
True == [tag |-> "true", value |-> <<>>]
False == [tag |-> "false", value |-> <<>>]

\* a JS number that may be NaN
Num(n) == [nan |-> FALSE, v |-> n]
NaN == [nan |-> TRUE, v |-> 0]
\* a < b on JS numbers: false as soon as one side is NaN
Lt(a, b) == ~a.nan /\ ~b.nan /\ a.v < b.v
Ge(a, b) == ~a.nan /\ ~b.nan /\ a.v >= b.v
Sub(a, b) == IF a.nan \/ b.nan THEN NaN ELSE Num(a.v - b.v)

\* a quotient num/den kept exact; 0/0 is NaN
Quot(n, d) == IF d = 0 THEN NaN ELSE [nan |-> FALSE, num |-> n, den |-> d]
\* Math.random() < q, the draw being r / RandDen
RandomLt(r, q) == ~q.nan /\ r * q.den < q.num * RandDen
(* IEEE 754 double arithmetic on the numbers a mixed run computes.  The     *)
(* 53-bit significand of a double is kept as a leading part (top) and      *)
(* Limbs limbs of LimbBits bits after the binary point, most significant   *)
(* first: the value is (top + 0.limbs) * 2^-e.                             *)
LimbBits == 13
Limbs == 4
Base == 2 ^ LimbBits

\* the e with 1 <= (s / d) * 2^e < 2, for 0 < s < d
RECURSIVE FirstOne(_, _)
FirstOne(s, d) == IF 2 * s >= d THEN 1 ELSE 1 + FirstOne(2 * s, d)

\* the first k limbs of r / d, for 0 <= r < d
RECURSIVE FracLimbs(_, _, _)
FracLimbs(r, d, k) ==
    IF k = 0 THEN <<>>
    ELSE <<(r * Base) \div d>> \o FracLimbs((r * Base) % d, d, k - 1)

\* what is left of r / d after its first k limbs, times d * Base^k
RECURSIVE FracRem(_, _, _)
FracRem(r, d, k) == IF k = 0 THEN r ELSE FracRem((r * Base) % d, d, k - 1)

\* x.top + x.limbs * n + carry into the last limb, exactly
RECURSIVE MulLimbs(_, _, _)
MulLimbs(limbs, n, carry) ==
    IF limbs = <<>> THEN [carry |-> carry, limbs |-> <<>>]
    ELSE LET t == limbs[Len(limbs)] * n + carry
             hi == MulLimbs(SubSeq(limbs, 1, Len(limbs) - 1), n, t \div Base)
         IN [carry |-> hi.carry, limbs |-> Append(hi.limbs, t % Base)]

\* the number of bits of an integer c > 0
RECURSIVE BitLength(_)
BitLength(c) == IF c <= 1 THEN 1 ELSE 1 + BitLength(c \div 2)

\* the double nearest to s / d, for 0 < s < d: round to nearest, ties to
\* even, on what is left of the quotient after its limbs
DoubleQuot(s, d) ==
    LET e == FirstOne(s, d)
        r == s * (2 ^ e) - d
        limbs == FracLimbs(r, d, Limbs)
        rem == FracRem(r, d, Limbs)
        up == 2 * rem > d \/ (2 * rem = d /\ limbs[Limbs] % 2 = 1)
        sum == MulLimbs(limbs, 1, IF up THEN 1 ELSE 0)
    IN [e |-> e, top |-> 1 + sum.carry, limbs |-> sum.limbs]

\* the double nearest to q * n, for an integer n > 0: the exact product has
\* x bits more than a significand holds, which are rounded off the last
\* limb (ties to even)
DoubleTimes(q, n) ==
    LET prod == MulLimbs(q.limbs, n, 0)
        top == q.top * n + prod.carry
        x == BitLength(top) - 1
        last == prod.limbs[Limbs]
        rem == last % (2 ^ x)
        half == 2 ^ (x - 1)
        up == x > 0 /\ (rem > half
                        \/ (rem = half /\ (last \div (2 ^ x)) % 2 = 1))
        sum == MulLimbs(SubSeq(prod.limbs, 1, Limbs - 1), 1,
                        (last - rem + (IF up THEN 2 ^ x ELSE 0)) \div Base)
    IN [e |-> q.e, top |-> top + sum.carry,
        limbs |-> Append(sum.limbs,
                         (last - rem + (IF up THEN 2 ^ x ELSE 0)) % Base)]

\* Math.floor((s / d) * n) for integers 0 <= s <= d, d > 0, n >= 0.  A
\* quotient that is an integer, and its product, are exact.
FloorDouble(s, d, n) ==
    IF s % d = 0 \/ n = 0 THEN (s \div d) * n
    ELSE DoubleTimes(DoubleQuot(s, d), n).top \div (2 ^ DoubleQuot(s, d).e)

\* Math.floor(q * n)
FloorTimes(q, n) == IF q.nan THEN NaN ELSE Num(FloorDouble(q.num, q.den, n))

Digit == [c \in {"0", "1", "2", "3", "4", "5", "6", "7", "8", "9"} |->
            CASE c = "0" -> 0 [] c = "1" -> 1 [] c = "2" -> 2 [] c = "3" -> 3
              [] c = "4" -> 4 [] c = "5" -> 5 [] c = "6" -> 6 [] c = "7" -> 7
              [] c = "8" -> 8 [] c = "9" -> 9]

\* Number(tok) for a token of decimal digits (Number("") is 0)
RECURSIVE Number(_)
Number(tok) ==
    IF tok = <<>> THEN 0
    ELSE 10 * Number(SubSeq(tok, 1, Len(tok) - 1)) + Digit[tok[Len(tok)]]

\* s.split(':') for a string given as a sequence of characters
RECURSIVE Split(_, _)
Split(s, cur) ==
    IF s = <<>> THEN <<cur>>
    ELSE IF Head(s) = ":" THEN <<cur>> \o Split(Tail(s), <<>>)
    ELSE Split(Tail(s), Append(cur, Head(s)))

\* String(n) for an integer n >= 0
DigitChars == <<"0", "1", "2", "3", "4", "5", "6", "7", "8", "9">>
RECURSIVE NumberToString(_)
NumberToString(n) ==
    IF n < 10 THEN <<DigitChars[n + 1]>>
    ELSE NumberToString(n \div 10) \o <<DigitChars[(n % 10) + 1]>>

\* the longest prefix of s made of decimal digits
RECURSIVE LeadingDigits(_)
LeadingDigits(s) ==
    IF s = <<>> \/ Head(s) \notin DOMAIN Digit THEN <<>>
    ELSE <<Head(s)>> \o LeadingDigits(Tail(s))

\* parseInt(x) for x >= 0: x is converted to a string and its leading
\* digits are parsed; NaN when there is none
parseInt(s) ==
    IF LeadingDigits(s) = <<>> THEN NaN ELSE Num(Number(LeadingDigits(s)))

\* n / d on JS numbers n >= 0, d >= 0, kept exact: x / 0 is Infinity for
\* x > 0 and NaN for x = 0
Divide(n, d) ==
    IF n.nan \/ d.nan \/ (n.v = 0 /\ d.v = 0)
    THEN [kind |-> "NaN", num |-> 0, den |-> 1]
    ELSE IF d.v = 0 THEN [kind |-> "Infinity", num |-> 0, den |-> 1]
    ELSE [kind |-> "finite", num |-> n.v, den |-> d.v]

\* ratio.split(':').map(Number)
ParseRatio(s) == [k \in 1 .. Len(Split(s, <<>>)) |-> Number(Split(s, <<>>)[k])]


(* ------------------------- inputs of a run ---------------------------- *)
\* generateValue draws each character from chars; two of them stand for all
Chars == {"A", "B"}
Types == {"get", "set", "mixed"}
\* "scan" stands for every type outside get, set, mixed
TypeInputs == Types \cup {"scan"}
Ratios == {<<"1", ":", "1">>, <<"1", ":", "0">>, <<"0", ":", "1">>,
           <<"0", ":", "0">>}
RequestInputs == 0 .. MaxRequests
SizeInputs == 0 .. MaxSize

\* the ratio a config carries: only a mixed run reads it, the others are
\* given the default of the destructuring
RatioInputs(type) == IF type = "mixed" THEN Ratios ELSE {<<"1", ":", "1">>}

NoConfig == [type |-> "", storage |-> "", requests |-> 0, size |-> 0,
             ratio |-> <<>>, cachedRatio |-> <<>>]
NoResult == [returned |-> FALSE, type |-> "", storage |-> "",
             requests |-> Num(0), size |-> Num(0), ratio |-> <<>>,
             cachedRatio |-> <<>>, duration |-> 0,
             opsPerSecond |-> Divide(Num(0), Num(1))]

(* --------------------- mockKVService.js: the tiers -------------------- *)
simulationConfig ==
    [redisLatencyMs |-> [min |-> 2, max |-> 15],
     dbLatencyMs |-> [min |-> 30, max |-> 200],
     networkJitterMs |-> [min |-> 0, max |-> 5]]
NoDelay == [min |-> 0, max |-> 0]

\* simulateLatency(min, max) awaits setTimeout(resolve, latency) with
\* min <= latency: the timer takes at least min ms, and at least 1 ms
\* (the least delay of a timer).  A call that awaits no timer (NoDelay)
\* takes no measurable time.
TimerFloor(delay) ==
    IF delay = NoDelay THEN 0
    ELSE IF delay.min < 1 THEN 1 ELSE delay.min

\* redis.set after its await: redisStore.set(key, value)
redis_set_store(store, key, value) == MapSet(store, key, value)

\* redis.set after its await: the hot cache
redis_set_cache(cache, key, value, cached) ==
    IF cached THEN MapSet(cache, key, value)
    ELSE IF MapHas(cache, key) THEN MapDelete(cache, key)
    ELSE cache

\* redis.get with the cache hit paying the full cached-tier latency
M_redis_get_delay(hit) == simulationConfig.redisLatencyMs

\* redis.get: which delay it awaits, hit being redisCache.has(key)
redis_get_delay(hit) ==
    IF hit THEN simulationConfig.networkJitterMs
    ELSE simulationConfig.redisLatencyMs

\* redis.get with the miss path looking the key up in the hot cache
M_redis_get_return(hit, store, cache, key) ==
    IF MapHas(cache, key) THEN Val(cache[key]) ELSE Null

\* redis.get after its await
redis_get_return(hit, store, cache, key) ==
    IF hit
    THEN IF MapHas(cache, key) THEN Val(cache[key]) ELSE Undefined
    ELSE IF MapHas(store, key) THEN Val(store[key]) ELSE Null

\* db.set writing into a store made anew
M_db_set_store(store, key, value) == MapSet(EmptyMap, key, value)

\* db.set after its await
db_set_store(store, key, value) == MapSet(store, key, value)

\* db.get after its await
db_get_return(store, key) ==
    IF MapHas(store, key) THEN Val(store[key]) ELSE Null

\* redis.del after its await: const hadKey = redisStore.delete(key)
redis_del_store(store, key) == MapDelete(store, key)
redis_del_return(store, key) == IF MapHas(store, key) THEN True ELSE False

\* redis.del leaving the hot cache as it is
M_redis_del_cache(cache, key) == cache

\* redis.del after its await: redisCache.delete(key)
redis_del_cache(cache, key) == MapDelete(cache, key)

\* redis.flushAll after its await: both maps are cleared
redis_flushAll == [store |-> EmptyMap, cache |-> EmptyMap]

\* db.del after its await: return dbStore.delete(key)
db_del_store(store, key) == MapDelete(store, key)
db_del_return(store, key) == IF MapHas(store, key) THEN True ELSE False

\* db.clear after its await
db_clear == EmptyMap

(* ------------------ KVRedis / KVDatabase: the tiers ------------------- *)
\* KVDatabase.delete after its await
KVDatabase_delete(d, key) ==
    IF MapHas(d.store, key) THEN [store |-> MapDelete(d.store, key)] ELSE d
KVDatabase_delete_return(d, key) ==
    IF MapHas(d.store, key) THEN True ELSE False

\* KVDatabase.clear after its await
KVDatabase_clear == [store |-> EmptyMap]

\* x || null for a stored string: the empty string is falsy
OrNull(m, k) == IF MapHas(m, k) /\ m[k] # <<>> THEN Val(m[k]) ELSE Null

\* KVRedis.set before its await
KVRedis_set(kv, key, value, cached) ==
    [store |-> MapSet(kv.store, key, value),
     cache |-> IF cached THEN MapSet(kv.cache, key, value) ELSE kv.cache]

\* KVRedis.set: a cached write returns without awaiting
KVRedis_set_delay(cached) ==
    IF cached THEN NoDelay ELSE [min |-> 5, max |-> 20]

\* KVRedis.get: a cached read returns without awaiting
KVRedis_get_delay(hit) ==
    IF hit THEN NoDelay ELSE [min |-> 2, max |-> 15]

\* KVRedis.get: the value returned
KVRedis_get_return(hit, kv, key) ==
    IF hit THEN Val(kv.cache[key]) ELSE OrNull(kv.store, key)

\* KVDatabase.set after its await
KVDatabase_set(d, key, value) == [store |-> MapSet(d.store, key, value)]

\* KVDatabase.get after its await
KVDatabase_get_return(d, key) == OrNull(d.store, key)

(* ------------------------- a storage call ----------------------------- *)
NoKey == <<"", 0>>
NoOp == [state |-> "none", kind |-> "none", tier |-> "none", key |-> NoKey,
         value |-> <<>>, cached |-> FALSE, hit |-> FALSE, wasCached |-> FALSE,
         hadKey |-> FALSE, delay |-> NoDelay, ret |-> Undefined]

\* is key in the hot cache of the loaded cached tier
InHotCache(key) ==
    IF impl = "map" THEN MapHas(redisCache, key) ELSE MapHas(kvRedis.cache, key)

\* storageImpl.set(key, value, cached) up to its await
BeginSet(tier, key, value, cached) ==
    /\ op' = [state |-> "pending", kind |-> "set", tier |-> tier, key |-> key,
              value |-> value, cached |-> cached, hit |-> FALSE,
              wasCached |-> tier = "redis" /\ InHotCache(key),
              hadKey |-> FALSE,
              delay |-> IF impl = "map"
                        THEN IF tier = "redis"
                             THEN simulationConfig.redisLatencyMs
                             ELSE simulationConfig.dbLatencyMs
                        ELSE IF tier = "redis" THEN KVRedis_set_delay(cached)
                             ELSE [min |-> 10, max |-> 50],
              ret |-> Undefined]
    /\ kvRedis' = IF impl = "class" /\ tier = "redis"
                  THEN KVRedis_set(kvRedis, key, value, cached) ELSE kvRedis
    /\ UNCHANGED <<redisStore, redisCache, dbStore, kvDb>>
    /\ setCalls' = [setCalls EXCEPT ![tier] = @ + 1]
    /\ written' = written \cup {key}
    /\ inFlight' = inFlight + 1
    /\ UNCHANGED <<getCalls, setsDone, elapsed, wrote>>

\* storageImpl.get(key) up to its await
BeginGet(tier, key) ==
    LET hit == tier = "redis" /\ InHotCache(key) IN
    /\ op' = [state |-> "pending", kind |-> "get", tier |-> tier, key |-> key,
              value |-> <<>>, cached |-> FALSE, hit |-> hit, wasCached |-> hit,
              hadKey |-> FALSE,
              delay |-> IF impl = "map"
                        THEN IF tier = "redis" THEN redis_get_delay(hit)
                             ELSE simulationConfig.dbLatencyMs
                        ELSE IF tier = "redis" THEN KVRedis_get_delay(hit)
                             ELSE [min |-> 5, max |-> 30],
              ret |-> Undefined]
    /\ getCalls' = [getCalls EXCEPT ![tier] = @ + 1]
    /\ inFlight' = inFlight + 1
    /\ UNCHANGED <<stores, setCalls, setsDone, written, elapsed, wrote>>

\* the awaited delay is over: the rest of the storage call runs and the
\* call returns to runBenchmark.  (KVRedis.set has written before its await
\* and KVRedis.get reads a cached value before returning; a run has one
\* call in flight, so the maps are the same at both ends of the call.)
EndOp ==
    /\ UNCHANGED <<resultsVars, webVars>>
    /\ op.state = "pending" /\ op.kind \in {"set", "get"}
    /\ redisStore' = IF impl = "map" /\ op.kind = "set" /\ op.tier = "redis"
                     THEN redis_set_store(redisStore, op.key, op.value)
                     ELSE redisStore
    /\ redisCache' = IF impl = "map" /\ op.kind = "set" /\ op.tier = "redis"
                     THEN redis_set_cache(redisCache, op.key, op.value,
                                          op.cached)
                     ELSE redisCache
    /\ dbStore' = IF impl = "map" /\ op.kind = "set" /\ op.tier = "db"
                  THEN db_set_store(dbStore, op.key, op.value)
                  ELSE dbStore
    /\ kvDb' = IF impl = "class" /\ op.kind = "set" /\ op.tier = "db"
               THEN KVDatabase_set(kvDb, op.key, op.value)
               ELSE kvDb
    /\ UNCHANGED kvRedis
    /\ op' = [op EXCEPT
                !.state = "done",
                !.wasCached = IF impl = "map" /\ op.kind = "set"
                                 /\ op.tier = "redis"
                              THEN MapHas(redisCache, op.key) ELSE @,
                !.ret = IF op.kind = "set" THEN True
                        ELSE IF impl = "map"
                        THEN IF op.tier = "redis"
                             THEN redis_get_return(op.hit, redisStore,
                                                   redisCache, op.key)
                             ELSE db_get_return(dbStore, op.key)
                        ELSE IF op.tier = "redis"
                             THEN KVRedis_get_return(op.hit, kvRedis, op.key)
                             ELSE KVDatabase_get_return(kvDb, op.key)]
    /\ setsDone' = IF op.kind = "set" THEN setsDone + 1 ELSE setsDone
    /\ inFlight' = inFlight - 1
    /\ elapsed' = elapsed + TimerFloor(op.delay)
    /\ wrote' = IF op.kind = "set"
                THEN [wrote EXCEPT ![op.tier] = @ \cup {op.key}] ELSE wrote
    /\ UNCHANGED <<impl, allValid, config, pc, i, mixedVars, setCalls,
                   getCalls, written, result, runs>>


(* --------------------------- runBenchmark ----------------------------- *)
\* generateValue(size): any string of size characters
GenerateValue(size) == IF size <= 0 THEN {<<>>} ELSE [1 .. size -> Chars]

\* const storageImpl = storage === 'redis' ? redis : db
StorageImpl(storage) == IF storage = "redis" THEN "redis" ELSE "db"

\* cachedProbability with the two parts of the ratio taken in the other order
M_cachedProbability(cachedRatio) ==
    LET parts == ParseRatio(cachedRatio)
        sum == parts[1] + parts[2]
    IN Quot(parts[2], IF sum = 0 THEN 1 ELSE sum)

\* mockKVService.js: cachedPart / (cachedPart + uncachedPart || 1)
cachedProbability(cachedRatio) ==
    LET parts == ParseRatio(cachedRatio)
        sum == parts[1] + parts[2]
    IN Quot(parts[1], IF sum = 0 THEN 1 ELSE sum)

\* class runBenchmark: cachedPart / (cachedPart + uncachedPart)
KV_cachedProbability(cachedRatio) ==
    LET parts == ParseRatio(cachedRatio)
    IN Quot(parts[1], parts[1] + parts[2])

\* setRatio / (setRatio + getRatio)
SetProbability(ratio) ==
    LET parts == ParseRatio(ratio)
    IN Quot(parts[1], parts[1] + parts[2])

\* mockKVService.js: the key of index n in a run of the given type
KeyOf(type, n) ==
    IF type = "set" THEN <<"benchmark:", n>>
    ELSE IF type = "get" THEN <<"benchmark:get:", n>>
    ELSE <<"benchmark:mixed:", n>>

\* class runBenchmark: every type uses `benchmark:${i}`
KV_KeyOf(type, n) == <<"benchmark:", n>>

RunKey(n) == IF impl = "map" THEN KeyOf(config.type, n)
             ELSE KV_KeyOf(config.type, n)

\* const isCached = Math.random() < cachedProbability, the draw being r
IsCached(r) ==
    IF impl = "map" THEN RandomLt(r, cachedProbability(config.cachedRatio))
    ELSE RandomLt(r, KV_cachedProbability(config.cachedRatio))

\* the loop condition off by one
M_LoopCond(n, requests) == n <= requests

\* the loop condition of the set loop, the populate loop and the read loop
LoopCond(n, requests) == n < requests

\* the bound of the pre-populate loop with requests / 2 rounded down
M_PrepopulateCond(n, gOps, requests) ==
    Lt(Num(n), gOps) /\ n < requests \div 2

\* i < Math.min(getOps, requests / 2)
PrepopulateCond(n, gOps, requests) == Lt(Num(n), gOps) /\ 2 * n < requests

\* isSetOp without getCount >= getOps: the draw alone decides
M_IsSetOp_Drawn(sCount, gCount, sOps, gOps, r, ratio) ==
    /\ Lt(Num(sCount), sOps)
    /\ RandomLt(r, SetProbability(ratio))

\* isSetOp without the quota test setCount < setOps
M_IsSetOp(sCount, gCount, sOps, gOps, r, ratio) ==
    Ge(Num(gCount), gOps) \/ RandomLt(r, SetProbability(ratio))

\* const isSetOp = setCount < setOps && (getCount >= getOps ||
\*                 Math.random() < (setRatio / (setRatio + getRatio)))
IsSetOp(sCount, gCount, sOps, gOps, r, ratio) ==
    /\ Lt(Num(sCount), sOps)
    /\ (Ge(Num(gCount), gOps) \/ RandomLt(r, SetProbability(ratio)))

Draws == 0 .. (RandDen - 1)

\* one write of a run: the value and the cacheability are drawn, then
\* storageImpl.set is called.  The db tiers take no cached argument.
WriteCall(key) ==
    \E value \in GenerateValue(config.size) :
        IF StorageImpl(config.storage) = "redis"
        THEN \E r \in Draws : BeginSet("redis", key, value, IsCached(r))
        ELSE BeginSet("db", key, value, FALSE)

\* the storage call made without await: the run is never suspended
M_Suspended == FALSE

\* await storageImpl.set(...) / await storageImpl.get(...): the run is
\* suspended until the call in flight returns
Suspended == op.state = "pending"

\* a ratio pair is valid when its weights are not both zero
ValidRatio(r) == ParseRatio(r)[1] + ParseRatio(r)[2] > 0

\* the configs the data model of the specification calls valid
ValidConfig(c) ==
    /\ c.type \in Types
    /\ c.requests > 0
    /\ c.size > 0
    /\ ValidRatio(c.ratio)
    /\ ValidRatio(c.cachedRatio)

\* const setOps = Math.floor((setRatio / (setRatio + getRatio)) * requests)
SetOpsOf(ratio, requests) == FloorTimes(SetProbability(ratio), requests)

\* const getOps = requests - setOps
GetOpsOf(ratio, requests) == Sub(Num(requests), SetOpsOf(ratio, requests))

\* runBenchmark is called: destructuring, parsing and the choice of branch
StartRun ==
    /\ UNCHANGED <<resultsVars, webVars>>
    /\ pc \in {"idle", "done"}
    /\ runs < MaxRuns
    /\ runs' = runs + 1
    /\ \E type \in TypeInputs, storage \in Tiers, requests \in RequestInputs,
          size \in SizeInputs, cachedRatio \in Ratios :
         \E ratio \in RatioInputs(type) :
           /\ config' = [type |-> type, storage |-> storage,
                         requests |-> requests, size |-> size, ratio |-> ratio,
                         cachedRatio |-> cachedRatio]
           /\ pc' = CASE type = "set" -> "set"
                      [] type = "get" -> "populate"
                      [] type = "mixed" -> "prepopulate"
                      [] OTHER -> "finish"
           /\ setOps' = IF type = "mixed" THEN SetOpsOf(ratio, requests)
                        ELSE Num(0)
           /\ getOps' = IF type = "mixed" THEN GetOpsOf(ratio, requests)
                        ELSE Num(0)
    /\ i' = 0
    /\ setCount' = 0
    /\ getCount' = 0
    /\ op' = NoOp
    /\ setCalls' = [t \in Tiers |-> 0]
    /\ getCalls' = [t \in Tiers |-> 0]
    /\ setsDone' = 0
    /\ written' = {}
    /\ result' = NoResult
    /\ elapsed' = 0
    /\ UNCHANGED <<impl, stores, inFlight, wrote>>
    /\ allValid' = (allValid /\ ValidConfig(config'))

\* type 'set': one iteration of the loop, up to the await
SetLoop ==
    /\ UNCHANGED <<resultsVars, webVars>>
    /\ pc = "set" /\ ~Suspended
    /\ LoopCond(i, config.requests)
    /\ WriteCall(RunKey(i))
    /\ i' = i + 1
    /\ UNCHANGED <<impl, allValid, config, pc, mixedVars, result, runs>>

\* type 'get': one iteration of the populate loop, up to the await
PopulateLoop ==
    /\ UNCHANGED <<resultsVars, webVars>>
    /\ pc = "populate" /\ ~Suspended
    /\ LoopCond(i, config.requests)
    /\ WriteCall(RunKey(i))
    /\ i' = i + 1
    /\ UNCHANGED <<impl, allValid, config, pc, mixedVars, result, runs>>

\* type 'get': the populate loop ends, the read loop starts
PopulateExit ==
    /\ UNCHANGED <<resultsVars, webVars>>
    /\ pc = "populate" /\ ~Suspended
    /\ ~LoopCond(i, config.requests)
    /\ pc' = "read"
    /\ i' = 0
    /\ UNCHANGED <<impl, allValid, stores, config, mixedVars, op, setCalls,
                   getCalls, setsDone, written, result, runs, inFlight,
                   elapsed, wrote>>

\* type 'get': one iteration of the read loop, up to the await
ReadLoop ==
    /\ UNCHANGED <<resultsVars, webVars>>
    /\ pc = "read" /\ ~Suspended
    /\ LoopCond(i, config.requests)
    /\ BeginGet(StorageImpl(config.storage), RunKey(i))
    /\ i' = i + 1
    /\ UNCHANGED <<impl, allValid, config, pc, mixedVars, result, runs>>

\* type 'mixed': one iteration of the pre-populate loop, up to the await
PrepopulateLoop ==
    /\ UNCHANGED <<resultsVars, webVars>>
    /\ pc = "prepopulate" /\ ~Suspended
    /\ PrepopulateCond(i, getOps, config.requests)
    /\ WriteCall(RunKey(i))
    /\ i' = i + 1
    /\ UNCHANGED <<impl, allValid, config, pc, mixedVars, result, runs>>

\* type 'mixed': the pre-populate loop ends, the mixed loop starts
PrepopulateExit ==
    /\ UNCHANGED <<resultsVars, webVars>>
    /\ pc = "prepopulate" /\ ~Suspended
    /\ ~PrepopulateCond(i, getOps, config.requests)
    /\ pc' = "mixed"
    /\ i' = 0
    /\ setCount' = 0
    /\ getCount' = 0
    /\ UNCHANGED <<impl, allValid, stores, config, setOps, getOps, op, setCalls,
                   getCalls, setsDone, written, result, runs, inFlight,
                   elapsed, wrote>>

\* type 'mixed': one iteration of the mixed loop, up to the await.  The key
\* index is Math.floor(Math.random() * requests): any of 0 .. requests-1.
MixedLoop ==
    /\ UNCHANGED <<resultsVars, webVars>>
    /\ pc = "mixed" /\ ~Suspended
    /\ LoopCond(i, config.requests)
    /\ \E r \in Draws, n \in 0 .. (config.requests - 1) :
         IF IsSetOp(setCount, getCount, setOps, getOps, r, config.ratio)
         THEN /\ setCount' = setCount + 1
              /\ getCount' = getCount
              /\ WriteCall(RunKey(n))
         ELSE /\ getCount' = getCount + 1
              /\ setCount' = setCount
              /\ BeginGet(StorageImpl(config.storage), RunKey(n))
    /\ i' = i + 1
    /\ UNCHANGED <<impl, allValid, config, pc, setOps, getOps, result, runs>>

\* the cachedRatio of the result record
ResultCachedRatio(storage, cachedRatio) ==
    IF storage = "redis" THEN cachedRatio ELSE <<"0", ":", "1">>

\* class runBenchmark echoes cachedRatio
KV_ResultCachedRatio(storage, cachedRatio) == cachedRatio

\* mockKVService.js: the requests and the size of the result record
ResultRequests(c) == Num(c.requests)

\* the result record carrying the request count as its size
M_ResultSize(c) == Num(c.requests)

ResultSize(c) == Num(c.size)

\* class runBenchmark: const totalOperations = parseInt(requests)
KV_totalOperations(c) == parseInt(NumberToString(c.requests))

\* class runBenchmark: const dataSize = parseInt(size)
KV_dataSize(c) == parseInt(NumberToString(c.size))

\* performance.now() differences in ms: what the run spent besides the
\* timers it awaited
Overheads == {0, 1}

\* requests / duration, duration being (endTime - startTime) / 1000: the
\* quotient requests * 1000 / ms
OpsPerSecond(requests, ms) ==
    Divide(IF requests.nan THEN NaN ELSE Num(requests.v * 1000), Num(ms))

\* the branch taken is over (or no branch was taken): the time is taken and
\* the result record is built and returned
Finish ==
    /\ UNCHANGED <<resultsVars, webVars>>
    /\ ~Suspended
    /\ \/ pc \in {"set", "read", "mixed"} /\ ~LoopCond(i, config.requests)
       \/ pc = "finish"
    /\ pc' = "done"
    /\ \E overhead \in Overheads :
         LET ms == elapsed + overhead
             total == IF impl = "map" THEN ResultRequests(config)
                      ELSE KV_totalOperations(config)
         IN result' =
              [returned |-> TRUE, type |-> config.type,
               storage |-> config.storage,
               requests |-> total,
               size |-> IF impl = "map" THEN ResultSize(config)
                        ELSE KV_dataSize(config),
               ratio |-> config.ratio,
               cachedRatio |->
                   IF impl = "map"
                   THEN ResultCachedRatio(config.storage, config.cachedRatio)
                   ELSE KV_ResultCachedRatio(config.storage,
                                             config.cachedRatio),
               duration |-> ms,
               opsPerSecond |-> OpsPerSecond(total, ms)]
    /\ UNCHANGED <<impl, allValid, stores, config, i, mixedVars, op,
                   setCalls, getCalls, setsDone, written, runs, inFlight,
                   elapsed, wrote>>

(* ------------------- the state of the web application ----------------- *)
\* a body or a record without id
NoId == <<>>
NoRecord == [id |-> NoId, type |-> "", storage |-> ""]

\* the keys of finalResult / of generateMockBenchmarkData's object, and of
\* the body of an error response
ResultKeys == {"id", "name", "type", "storage", "requests", "size", "ratio",
               "cachedRatio", "opsPerSecond", "duration", "timestamp"}
MessageKeys == {"message"}
Message == [keys |-> MessageKeys, record |-> NoRecord]
NoResponse == [keys |-> {}, record |-> NoRecord]

\* what is kept of a request: the handler, the method, the body (null is
\* the JSON body null; id is the id of the body or of the query), how the
\* external command ended, the results file before, whether it was written
NoRequest == [handler |-> "none", method |-> "", null |-> FALSE, id |-> NoId,
              type |-> "", storage |-> "", exec |-> "", before |-> <<>>,
              fileWritten |-> FALSE]

Clients == 1 .. MaxClients
Callers == 1 .. MaxCallers
NoCall == [kind |-> "none", key |-> NoKey, value |-> <<>>,
           cached |-> FALSE]

\* const [predefinedTests, setPredefinedTests] = useState([...])
predefinedTests ==
    << [type |-> "get", storage |-> "redis"],
       [type |-> "get", storage |-> "db"],
       [type |-> "set", storage |-> "redis"],
       [type |-> "set", storage |-> "db"],
       [type |-> "mixed", storage |-> "redis"],
       [type |-> "mixed", storage |-> "db"] >>

\* a number n / d in lowest terms
RECURSIVE GCD(_, _)
GCD(a, b) == IF b = 0 THEN a ELSE GCD(b, a % b)
Fraction(n, d) ==
    IF n = 0 THEN [num |-> 0, den |-> 1]
    ELSE [num |-> n \div GCD(n, d), den |-> d \div GCD(n, d)]

\* no runBenchmark call of the dashboard made yet
NoRun == [pc |-> "none", type |-> "", storage |-> "", results |-> <<>>,
          newResult |-> NoRecord, before |-> 0, threw |-> FALSE]

ApiInit ==
    /\ request = NoRequest
    /\ response = NoResponse
    /\ inbox = [c \in Clients |-> NoRequest]
    /\ answered = {}

\* BenchmarkForm as rendered first by p: useState(false), useState(0)
FormInit(p) ==
    /\ parent = p
    /\ runningBenchmark = FALSE
    /\ progress = Fraction(0, 1)
    /\ formPc = "idle"
    /\ formI = 0
    /\ promises = [k \in 1 .. Len(predefinedTests) |-> "none"]
    /\ onSubmit = <<>>
    /\ detached = FALSE

\* Home: useState('benchmark'), useState([]), useState(false); the results
\* file is empty, so the initial load leaves results empty
HomeInit ==
    /\ homeResults = <<>>
    /\ isLoading = FALSE
    /\ activeTab = "benchmark"
    /\ call = NoRun
    /\ expected = <<>>
    /\ faults = [begun |-> 0, kind |-> "none"]
    /\ clicks = 0

WebInit ==
    /\ ApiInit
    /\ callers = [c \in Callers |-> NoCall]
    /\ HomeInit

(* ------------------------- the specification -------------------------- *)
\* no results file yet, no request served yet
ResultsInit ==
    /\ resultsFile = <<>>
    /\ status = 0
    /\ nextId = 0
    /\ now = 0

\* the tiers empty, no runBenchmark call made
EngineInit ==
    /\ redisStore = EmptyMap
    /\ redisCache = EmptyMap
    /\ dbStore = EmptyMap
    /\ kvRedis = [store |-> EmptyMap, cache |-> EmptyMap]
    /\ kvDb = [store |-> EmptyMap]
    /\ config = NoConfig
    /\ pc = "idle"
    /\ i = 0
    /\ setOps = Num(0)
    /\ getOps = Num(0)
    /\ setCount = 0
    /\ getCount = 0
    /\ op = NoOp
    /\ setCalls = [t \in Tiers |-> 0]
    /\ getCalls = [t \in Tiers |-> 0]
    /\ setsDone = 0
    /\ written = {}
    /\ result = NoResult
    /\ runs = 0
    /\ allValid = TRUE
    /\ inFlight = 0
    /\ elapsed = 0
    /\ wrote = [t \in Tiers |-> {}]

Init ==
    /\ impl \in Impls
    /\ EngineInit
    /\ ResultsInit
    /\ WebInit
    /\ FormInit("Home")

Next ==
    \/ StartRun
    \/ SetLoop
    \/ PopulateLoop
    \/ PopulateExit
    \/ ReadLoop
    \/ PrepopulateLoop
    \/ PrepopulateExit
    \/ MixedLoop
    \/ EndOp
    \/ Finish

Spec == Init /\ [][Next]_vars

(* The split of a mixed run on its own: Init draws the ratio and the       *)
(* request count, the one action computes setOps and getOps as the mixed   *)
(* branch does.                                                            *)
RatioString(setWeight, getWeight) ==
    NumberToString(setWeight) \o <<":">> \o NumberToString(getWeight)

SplitInit ==
    /\ impl \in Impls
    /\ redisStore = EmptyMap
    /\ redisCache = EmptyMap
    /\ dbStore = EmptyMap
    /\ kvRedis = [store |-> EmptyMap, cache |-> EmptyMap]
    /\ kvDb = [store |-> EmptyMap]
    /\ pc = "idle"
    /\ i = 0
    /\ setOps = Num(0)
    /\ getOps = Num(0)
    /\ setCount = 0
    /\ getCount = 0
    /\ op = NoOp
    /\ setCalls = [t \in Tiers |-> 0]
    /\ getCalls = [t \in Tiers |-> 0]
    /\ setsDone = 0
    /\ written = {}
    /\ result = NoResult
    /\ runs = 0
    /\ allValid = TRUE
    /\ inFlight = 0
    /\ elapsed = 0
    /\ wrote = [t \in Tiers |-> {}]
    /\ ResultsInit
    /\ WebInit
    /\ FormInit("Home")
    /\ \E setWeight \in 0 .. MaxWeight, getWeight \in 0 .. MaxWeight,
          requests \in 0 .. MaxSplitRequests :
         config = [type |-> "mixed", storage |-> "redis",
                   requests |-> requests, size |-> 1,
                   ratio |-> RatioString(setWeight, getWeight),
                   cachedRatio |-> <<"1", ":", "1">>]

\* the first two statements of the mixed branch
MixedSplit ==
    /\ UNCHANGED <<resultsVars, webVars>>
    /\ pc = "idle"
    /\ pc' = "split"
    /\ setOps' = SetOpsOf(config.ratio, config.requests)
    /\ getOps' = GetOpsOf(config.ratio, config.requests)
    /\ UNCHANGED <<impl, stores, config, i, setCount, getCount, op, setCalls,
                   getCalls, setsDone, written, result, runs, allValid,
                   inFlight, elapsed, wrote>>

SplitNext == MixedSplit

SpecSplit == SplitInit /\ [][SplitNext]_vars

(* ------------------------ callers of the tiers ------------------------ *)
(* A client of the exported redis and db objects (of the KVRedis and       *)
(* KVDatabase instances) makes set, del and flushAll / clear calls, one    *)
(* at a time.  KVRedis has neither del nor flushAll.                       *)
TierKeys == {KeyOf("set", 0), KeyOf("set", 1)}
runVars == <<config, pc, i, setOps, getOps, setCount, getCount, result, runs,
             allValid>>

\* the latency the call awaits
DelDelay(tier) ==
    IF impl = "map"
    THEN IF tier = "redis" THEN simulationConfig.redisLatencyMs
         ELSE simulationConfig.dbLatencyMs
    ELSE [min |-> 8, max |-> 40]

ClearDelay(tier) ==
    IF impl = "map"
    THEN IF tier = "redis"
         THEN [min |-> simulationConfig.redisLatencyMs.min * 2,
               max |-> simulationConfig.redisLatencyMs.max * 2]
         ELSE [min |-> simulationConfig.dbLatencyMs.min * 2,
               max |-> simulationConfig.dbLatencyMs.max * 2]
    ELSE [min |-> 20, max |-> 100]

\* redis.set(key, value, cached) / db.set(key, value) up to its await
TierSet ==
    /\ UNCHANGED <<resultsVars, webVars>>
    /\ ~Suspended
    /\ \E tier \in Tiers, key \in TierKeys, value \in GenerateValue(MaxSize),
          cached \in BOOLEAN :
         /\ setCalls[tier] < MaxTierSets
         /\ tier = "db" => ~cached
         /\ BeginSet(tier, key, value, cached)
    /\ UNCHANGED <<impl, runVars>>

\* redis.del(key) / db.del(key) / KVDatabase.delete(key) up to its await
TierDel ==
    /\ UNCHANGED <<resultsVars, webVars>>
    /\ ~Suspended
    /\ \E tier \in Tiers, key \in TierKeys :
         /\ impl = "class" => tier = "db"
         /\ op' = [NoOp EXCEPT !.state = "pending", !.kind = "del",
                               !.tier = tier, !.key = key,
                               !.delay = DelDelay(tier)]
    /\ inFlight' = inFlight + 1
    /\ UNCHANGED <<impl, stores, runVars, setCalls, getCalls, setsDone,
                   written, elapsed, wrote>>

\* redis.flushAll() / db.clear() / KVDatabase.clear() up to its await
TierClear ==
    /\ UNCHANGED <<resultsVars, webVars>>
    /\ ~Suspended
    /\ \E tier \in Tiers :
         /\ impl = "class" => tier = "db"
         /\ op' = [NoOp EXCEPT !.state = "pending", !.kind = "clear",
                               !.tier = tier, !.delay = ClearDelay(tier)]
    /\ inFlight' = inFlight + 1
    /\ UNCHANGED <<impl, stores, runVars, setCalls, getCalls, setsDone,
                   written, elapsed, wrote>>

\* the awaited delay of a del or of a flushAll / clear is over: the rest
\* of the call runs and the call returns
TierEnd ==
    /\ UNCHANGED <<resultsVars, webVars>>
    /\ op.state = "pending" /\ op.kind \in {"del", "clear"}
    /\ LET onRedis == impl = "map" /\ op.tier = "redis"
           onDb == impl = "map" /\ op.tier = "db"
           onKvDb == impl = "class" /\ op.tier = "db"
       IN /\ redisStore' =
                IF onRedis
                THEN IF op.kind = "del"
                     THEN redis_del_store(redisStore, op.key)
                     ELSE redis_flushAll.store
                ELSE redisStore
          /\ redisCache' =
                IF onRedis
                THEN IF op.kind = "del"
                     THEN redis_del_cache(redisCache, op.key)
                     ELSE redis_flushAll.cache
                ELSE redisCache
          /\ dbStore' =
                IF onDb
                THEN IF op.kind = "del" THEN db_del_store(dbStore, op.key)
                     ELSE db_clear
                ELSE dbStore
          /\ kvDb' =
                IF onKvDb
                THEN IF op.kind = "del" THEN KVDatabase_delete(kvDb, op.key)
                     ELSE KVDatabase_clear
                ELSE kvDb
          /\ op' = [op EXCEPT
                      !.state = "done",
                      !.hadKey =
                          IF onRedis THEN MapHas(redisStore, op.key)
                          ELSE IF onDb THEN MapHas(dbStore, op.key)
                          ELSE MapHas(kvDb.store, op.key),
                      !.wasCached = onRedis /\ MapHas(redisCache, op.key),
                      !.ret =
                          IF op.kind = "clear" THEN True
                          ELSE IF onRedis
                          THEN redis_del_return(redisStore, op.key)
                          ELSE IF onDb THEN db_del_return(dbStore, op.key)
                          ELSE KVDatabase_delete_return(kvDb, op.key)]
    /\ inFlight' = inFlight - 1
    /\ elapsed' = elapsed
    /\ UNCHANGED <<impl, kvRedis, runVars, setCalls, getCalls, setsDone,
                   written, wrote>>

TiersNext ==
    \/ TierSet
    \/ TierDel
    \/ TierClear
    \/ TierEnd
    \/ EndOp

SpecTiers == Init /\ [][TiersNext]_vars

(* ------------------ the results API and the dashboard ----------------- *)
(* POST, DELETE and GET requests served by the results handler, and the    *)
(* dashboard's runBenchmark, which posts the result of a benchmark.  The   *)
(* benchmark engine stays idle.                                            *)
engineVars == <<impl, redisStore, redisCache, dbStore, kvRedis, kvDb, config,
                pc, i, setOps, getOps, setCount, getCount, op, setCalls,
                getCalls, setsDone, written, result, runs, allValid,
                inFlight, elapsed, wrote>>

\* ids a client puts in the body of its POST
ClientIds == {<<"client", 1>>, <<"client", 2>>}
\* `run-${Math.random().toString(36).substring(2, 10)}`: the n-th id
\* generated, taken to differ from every other id
RandomId(n) == <<"random", n>>
\* the dashboard's `run-${Date.now()}`
DateId(t) == <<"date", t>>

\* the records of the file without reading it
M_readResults(file) == <<>>

\* readResults: the records of the file, each given an id if it has none
readResults(file) ==
    [k \in 1 .. Len(file) |->
        IF file[k].id = NoId
        THEN [file[k] EXCEPT !.id = RandomId(nextId + k)] ELSE file[k]]

\* the request a handler has served
Served(handler, method, body, fileWritten) ==
    [NoRequest EXCEPT !.handler = handler, !.method = method,
                      !.id = body.id, !.type = body.type,
                      !.storage = body.storage, !.before = resultsFile,
                      !.fileWritten = fileWritten]

\* the POST branch of the handler
Post(body) ==
    IF body.type = "" \/ body.storage = ""
    THEN /\ status' = 400
         /\ response' = Message
         /\ request' = Served("results", "POST", body, FALSE)
         /\ UNCHANGED <<resultsFile, nextId>>
    ELSE /\ nextId' = IF body.id = NoId THEN nextId + 1 ELSE nextId
         /\ LET newResult ==
                    [id |-> IF body.id # NoId THEN body.id
                            ELSE RandomId(nextId + 1),
                     type |-> body.type, storage |-> body.storage]
                results == Append(readResults(resultsFile), newResult)
            IN \E success \in BOOLEAN :
                  /\ request' = Served("results", "POST", body, success)
                  /\ IF success
                     THEN /\ resultsFile' = results
                          /\ status' = 201
                          /\ response' = [keys |-> ResultKeys,
                                          record |-> newResult]
                     ELSE /\ resultsFile' = resultsFile
                          /\ status' = 500
                          /\ response' = Message

\* the model keeps the file and the generated ids within its bounds
WithinBounds(body) ==
    /\ Len(resultsFile) < MaxResults
    /\ (body.type # "" /\ body.storage # "" /\ body.id = NoId)
           => nextId < MaxGenerated

\* a client posts a body of its own
ClientPost ==
    /\ \E id \in ClientIds \cup {NoId}, type \in {"", "set"},
          storage \in {"", "db"} :
         LET body == [id |-> id, type |-> type, storage |-> storage]
         IN WithinBounds(body) /\ Post(body)
    /\ UNCHANGED <<now, engineVars, postVars, callers, pageVars>>

\* the dashboard's runBenchmark: the result of /api/benchmark is given the
\* id `run-${Date.now()}` and posted
DashboardRun ==
    /\ LET body == [id |-> DateId(now), type |-> "set", storage |-> "db"]
       IN WithinBounds(body) /\ Post(body)
    /\ UNCHANGED <<now, engineVars, postVars, callers, pageVars>>

\* time passes
Tick ==
    /\ now < MaxClock
    /\ now' = now + 1
    /\ UNCHANGED <<resultsFile, status, nextId, engineVars, webVars>>

\* results.filter(r => r.id !== id) dropping the first such record only
RECURSIVE M_FilterOut(_, _)
M_FilterOut(results, id) ==
    IF results = <<>> THEN <<>>
    ELSE IF Head(results).id # id
         THEN <<Head(results)>> \o M_FilterOut(Tail(results), id)
         ELSE Tail(results)

\* results.filter(r => r.id !== id)
RECURSIVE FilterOut(_, _)
FilterOut(results, id) ==
    IF results = <<>> THEN <<>>
    ELSE IF Head(results).id # id
         THEN <<Head(results)>> \o FilterOut(Tail(results), id)
         ELSE FilterOut(Tail(results), id)

\* the DELETE branch of the handler, with or without ?id=
Delete ==
    /\ \E id \in ClientIds \cup {NoId} \cup {RandomId(1), DateId(0)} :
         LET results == readResults(resultsFile)
             filtered == FilterOut(results, id)
             query == [NoRecord EXCEPT !.id = id]
         IN IF id # NoId /\ Len(filtered) = Len(results)
            THEN /\ status' = 404
                 /\ resultsFile' = resultsFile
                 /\ response' = Message
                 /\ request' = Served("results", "DELETE", query, FALSE)
            ELSE \E success \in BOOLEAN :
                   /\ request' = Served("results", "DELETE", query, success)
                   /\ response' = Message
                   /\ IF success
                      THEN /\ resultsFile' =
                                  IF id # NoId THEN filtered ELSE <<>>
                           /\ status' = 200
                      ELSE resultsFile' = resultsFile /\ status' = 500
    /\ UNCHANGED <<nextId, now, engineVars, postVars, callers, pageVars>>

\* the GET branch of the handler: the file is read, not written
Get ==
    /\ status' = 200
    /\ request' = Served("results", "GET", NoRecord, FALSE)
    /\ response' = [keys |-> {}, record |-> NoRecord]
    /\ UNCHANGED <<resultsFile, nextId, now, engineVars, postVars, callers,
                   pageVars>>

ResultsNext ==
    \/ ClientPost
    \/ DashboardRun
    \/ Tick
    \/ Delete
    \/ Get

SpecResults == Init /\ [][ResultsNext]_vars

(* ------------------------ the benchmark handler ----------------------- *)
\* saveBenchmarkResult(result): the file with the result appended, or the
\* file as it was when reading or writing throws (the function then
\* returns false, which the handler does not look at)
saveBenchmarkResult(file, record, saved) ==
    IF saved THEN Append(file, record) ELSE file

\* USE_MOCK_DATA is 'true', or how the external command ends: execPromise
\* rejects, stdout is empty, stdout holds no JSON, stdout holds a JSON
\* object
ExecOutcomes == {"mock", "rejects", "empty", "garbage", "json"}

\* the handler of /api/benchmark.  It reads nothing shared before its
\* await of the external command, so the request takes effect at once
\* where the handler saves.  Every result gets a generated id: the mock
\* data has one, and a parsed object without id is given one.  The error
\* field of the record saved by the catch branch is not kept.
BenchmarkHandler(method, body) ==
    LET served == [NoRequest EXCEPT !.handler = "benchmark",
                                    !.method = method, !.null = body.null,
                                    !.type = body.type,
                                    !.storage = body.storage,
                                    !.before = resultsFile]
    IN
    IF method # "POST"
    THEN /\ status' = 405
         /\ response' = Message
         /\ request' = served
         /\ UNCHANGED <<resultsFile, nextId>>
    ELSE IF body.null
    THEN \* config.type throws; the catch branch answers with mock data for
         \* { type: 'mixed', storage: 'redis' } and saves it
         LET fallbackResult == [id |-> RandomId(nextId + 1),
                                type |-> "mixed", storage |-> "redis"]
         IN \E saved \in BOOLEAN :
              /\ resultsFile' =
                     saveBenchmarkResult(resultsFile, fallbackResult, saved)
              /\ nextId' = nextId + 1
              /\ status' = 200
              /\ response' = [keys |-> ResultKeys, record |-> fallbackResult]
              /\ request' = [served EXCEPT !.fileWritten = saved]
    ELSE IF body.type = "" \/ body.storage = ""
    THEN /\ status' = 400
         /\ response' = Message
         /\ request' = served
         /\ UNCHANGED <<resultsFile, nextId>>
    ELSE LET finalResult == [id |-> RandomId(nextId + 1),
                             type |-> body.type, storage |-> body.storage]
         IN \E exec \in ExecOutcomes, saved \in BOOLEAN :
              /\ resultsFile' =
                     saveBenchmarkResult(resultsFile, finalResult, saved)
              /\ nextId' = nextId + 1
              /\ status' = 200
              /\ response' = [keys |-> ResultKeys, record |-> finalResult]
              /\ request' = [served EXCEPT !.exec = exec,
                                           !.fileWritten = saved]

(* ------------------- concurrent clients of the API -------------------- *)
(* Clients send requests to the two handlers of the one server process;    *)
(* a request sent stays in flight until the process handles it.  The POST  *)
(* branch of the results handler has no await, so it runs in one step.     *)
Methods == {"GET", "POST"}

\* a client sends a POST to /api/results
SendResult(c) ==
    /\ inbox[c].handler = "none"
    /\ \E id \in ClientIds \cup {NoId}, type \in {"", "set"} :
         inbox' = [inbox EXCEPT
                     ![c] = [NoRequest EXCEPT !.handler = "results",
                                              !.method = "POST", !.id = id,
                                              !.type = type,
                                              !.storage = "db"]]
    /\ UNCHANGED <<resultsVars, engineVars, apiVars, answered, callers,
                   pageVars>>

\* a client sends a request to /api/benchmark
SendBenchmark(c) ==
    /\ inbox[c].handler = "none"
    /\ \E method \in Methods, null \in BOOLEAN, type \in {"", "set"},
          storage \in {"", "redis"} :
         /\ null => type = "" /\ storage = ""
         /\ inbox' = [inbox EXCEPT
                        ![c] = [NoRequest EXCEPT !.handler = "benchmark",
                                                 !.method = method,
                                                 !.null = null,
                                                 !.type = type,
                                                 !.storage = storage]]
    /\ UNCHANGED <<resultsVars, engineVars, apiVars, answered, callers,
                   pageVars>>

\* the process handles the POST of client c to /api/results
ServeResult(c) ==
    /\ inbox[c].handler = "results"
    /\ LET body == [id |-> inbox[c].id, type |-> inbox[c].type,
                    storage |-> inbox[c].storage]
       IN WithinBounds(body) /\ Post(body)
    /\ answered' =
           IF status' = 201
           THEN answered \cup
                    {[record |-> response'.record,
                      concurrent |-> \E d \in Clients \ {c} :
                                        inbox[d].handler # "none"]}
           ELSE answered
    /\ inbox' = [inbox EXCEPT ![c] = NoRequest]
    /\ UNCHANGED <<now, engineVars, callers, pageVars>>

\* the process handles the request of client c to /api/benchmark
ServeBenchmark(c) ==
    /\ inbox[c].handler = "benchmark"
    /\ Len(resultsFile) < MaxResults
    /\ nextId < MaxGenerated
    /\ BenchmarkHandler(inbox[c].method,
                        [null |-> inbox[c].null, type |-> inbox[c].type,
                         storage |-> inbox[c].storage])
    /\ inbox' = [inbox EXCEPT ![c] = NoRequest]
    /\ UNCHANGED <<now, engineVars, answered, callers, pageVars>>

ApiNext ==
    \/ \E c \in Clients : SendResult(c)
    \/ \E c \in Clients : SendBenchmark(c)
    \/ \E c \in Clients : ServeResult(c)
    \/ \E c \in Clients : ServeBenchmark(c)

SpecApi == Init /\ [][ApiNext]_vars

(* ---------------- concurrent callers of the cached tier --------------- *)
(* Several callers of the exported redis object of mockKVService.js have   *)
(* set, del, setCached and flushAll calls in flight together.  Each call   *)
(* awaits its simulated latency first and then runs to its return without  *)
(* another await.                                                          *)

\* redis.setCached without the test redisStore.has(key)
M_redis_setCached_cache(store, cache, key, cached) ==
    IF cached
    THEN MapSet(cache, key,
                IF MapHas(store, key) THEN store[key] ELSE <<"undefined">>)
    ELSE MapDelete(cache, key)

\* redis.setCached(key, cached): the hot cache after the call
redis_setCached_cache(store, cache, key, cached) ==
    IF ~MapHas(store, key) THEN cache
    ELSE IF cached THEN MapSet(cache, key, store[key])
         ELSE MapDelete(cache, key)

\* everything but the two maps of the cached tier and the calls in flight
callerFrame == <<impl, dbStore, kvRedis, kvDb, runVars, op, setCalls,
                 getCalls, setsDone, written, inFlight, elapsed, wrote,
                 resultsVars, apiVars, postVars, pageVars>>

CallersInit ==
    /\ impl = "map"
    /\ EngineInit
    /\ ResultsInit
    /\ WebInit
    /\ FormInit("Home")

\* redis.set(key, value, cached) up to its await
CallSet(c) ==
    /\ callers[c].kind = "none"
    /\ \E key \in TierKeys, value \in GenerateValue(MaxSize),
          cached \in BOOLEAN :
         callers' = [callers EXCEPT
                       ![c] = [kind |-> "set", key |-> key, value |-> value,
                               cached |-> cached]]
    /\ UNCHANGED <<redisStore, redisCache, callerFrame>>

\* redis.del(key) up to its await
CallDel(c) ==
    /\ callers[c].kind = "none"
    /\ \E key \in TierKeys :
         callers' = [callers EXCEPT
                       ![c] = [NoCall EXCEPT !.kind = "del", !.key = key]]
    /\ UNCHANGED <<redisStore, redisCache, callerFrame>>

\* redis.setCached(key, cached) up to its await
CallSetCached(c) ==
    /\ callers[c].kind = "none"
    /\ \E key \in TierKeys, cached \in BOOLEAN :
         callers' = [callers EXCEPT
                       ![c] = [NoCall EXCEPT !.kind = "setCached",
                                             !.key = key,
                                             !.cached = cached]]
    /\ UNCHANGED <<redisStore, redisCache, callerFrame>>

\* redis.flushAll() up to its await
CallFlushAll(c) ==
    /\ callers[c].kind = "none"
    /\ callers' = [callers EXCEPT ![c] = [NoCall EXCEPT !.kind = "flushAll"]]
    /\ UNCHANGED <<redisStore, redisCache, callerFrame>>

\* the awaited latency of the call of c is over: the call runs to its return
CallReturn(c) ==
    LET the == callers[c] IN
    /\ the.kind # "none"
    /\ redisStore' =
           CASE the.kind = "set" ->
                    redis_set_store(redisStore, the.key, the.value)
             [] the.kind = "del" -> redis_del_store(redisStore, the.key)
             [] the.kind = "flushAll" -> redis_flushAll.store
             [] OTHER -> redisStore
    /\ redisCache' =
           CASE the.kind = "set" ->
                    redis_set_cache(redisCache, the.key, the.value,
                                    the.cached)
             [] the.kind = "del" -> redis_del_cache(redisCache, the.key)
             [] the.kind = "flushAll" -> redis_flushAll.cache
             [] OTHER -> redis_setCached_cache(redisStore, redisCache,
                                               the.key, the.cached)
    /\ callers' = [callers EXCEPT ![c] = NoCall]
    /\ UNCHANGED callerFrame

CallersNext ==
    \/ \E c \in Callers : CallSet(c)
    \/ \E c \in Callers : CallDel(c)
    \/ \E c \in Callers : CallSetCached(c)
    \/ \E c \in Callers : CallFlushAll(c)
    \/ \E c \in Callers : CallReturn(c)

SpecCallers == CallersInit /\ [][CallersNext]_vars

(* ----------------------- BenchmarkForm and Home ------------------------ *)
(* BenchmarkForm is rendered by Home, which passes its runBenchmark as     *)
(* onSubmit, or by another parent, whose onSubmit returns a promise that   *)
(* is fulfilled or rejected at some later time.  The form's own submit     *)
(* button is not modelled: it is not rendered while runningBenchmark or    *)
(* isLoading is true.                                                      *)

\* const tabs
tabs == {"benchmark", "results", "leaderboard"}

\* everything outside the page and the API
backVars == <<engineVars, postVars, callers>>

\* the loop going on without the await of onSubmit
M_Settled(p) == TRUE

\* await onSubmit(test): the promise has been fulfilled or rejected
Settled(p) == p \in {"fulfilled", "rejected"}

\* runBenchmark without its catch
M_runBenchmark_settles(threw) == IF threw THEN "rejected" ELSE "fulfilled"

\* try / catch / finally of runBenchmark: what is thrown inside is caught,
\* so the promise of the call is fulfilled
runBenchmark_settles(threw) == "fulfilled"

\* the continuation of runAllBenchmarks is ready: it runs before any click
\* and before any response is looked at
ResumeReady == formPc = "await" /\ Settled(promises[formI + 1])

\* runBenchmark(benchmarkConfig) up to its first await; closure is the
\* results the function was created with
runBenchmark(benchmarkConfig, closure) ==
    /\ isLoading' = TRUE
    /\ call' = [pc |-> "benchmark", type |-> benchmarkConfig.type,
                storage |-> benchmarkConfig.storage, results |-> closure,
                newResult |-> NoRecord, before |-> Len(resultsFile),
                threw |-> FALSE]
    /\ UNCHANGED <<homeResults, activeTab, expected, faults>>

\* onSubmit(test) for the k-th predefined test, called by runAllBenchmarks
Submit(k, before, closure) ==
    /\ promises' = [before EXCEPT ![k] = "pending"]
    /\ IF parent = "Home"
       THEN runBenchmark(predefinedTests[k], closure)
       ELSE UNCHANGED callVars

\* a click on Run All Benchmarks: runAllBenchmarks up to its first await
RunAllClick ==
    /\ formPc = "idle" /\ ~runningBenchmark /\ ~isLoading
    /\ activeTab = "benchmark"
    /\ clicks < MaxClicks
    /\ clicks' = clicks + 1
    /\ runningBenchmark' = TRUE
    /\ onSubmit' = homeResults
    /\ formI' = 0
    /\ progress' = Fraction(0 * 100, Len(predefinedTests))
    /\ formPc' = "await"
    /\ detached' = FALSE
    /\ Submit(1, [k \in DOMAIN promises |-> "none"], homeResults)
    /\ UNCHANGED <<parent, resultsVars, apiVars, backVars>>

\* the promise awaited has settled: a rejection is caught and logged, i++,
\* and the next test is submitted or, after the last, the timer is set.
\* An unmounted form has no state to set.
RunAllResume ==
    /\ formPc = "await"
    /\ Settled(promises[formI + 1])
    /\ formI' = formI + 1
    /\ IF formI + 1 < Len(predefinedTests)
       THEN /\ progress' = IF detached THEN progress
                           ELSE Fraction((formI + 1) * 100,
                                         Len(predefinedTests))
            /\ Submit(formI + 2, promises, onSubmit)
            /\ UNCHANGED <<formPc, detached>>
       ELSE /\ progress' = IF detached THEN progress ELSE Fraction(100, 1)
            /\ formPc' = IF detached THEN "idle" ELSE "timer"
            /\ detached' = FALSE
            /\ UNCHANGED <<promises, callVars>>
    /\ UNCHANGED <<parent, runningBenchmark, onSubmit, clicks, resultsVars,
                   apiVars, backVars>>

\* the timer of runAllBenchmarks fires
RunAllTimer ==
    /\ formPc = "timer"
    /\ runningBenchmark' = FALSE
    /\ progress' = Fraction(0, 1)
    /\ formPc' = "idle"
    /\ UNCHANGED <<parent, formI, promises, onSubmit, detached, homeVars,
                   resultsVars, apiVars, backVars>>

\* the promise another parent's onSubmit returned is fulfilled or rejected
OnSubmitSettle ==
    /\ parent = "other"
    /\ \E k \in DOMAIN promises, outcome \in {"fulfilled", "rejected"} :
         /\ promises[k] = "pending"
         /\ promises' = [promises EXCEPT ![k] = outcome]
    /\ UNCHANGED <<parent, runningBenchmark, progress, formPc, formI,
                   onSubmit, detached, homeVars, resultsVars, apiVars,
                   backVars>>

FormNext ==
    \/ RunAllClick
    \/ RunAllResume
    \/ RunAllTimer
    \/ OnSubmitSettle

\* the form under a parent other than Home
OtherInit ==
    /\ impl = "class"
    /\ EngineInit
    /\ ResultsInit
    /\ WebInit
    /\ FormInit("other")

\* the continuation of an await whose promise has settled runs, and a timer
\* set fires
SpecForm ==
    /\ OtherInit
    /\ [][FormNext]_vars
    /\ WF_vars(RunAllResume)
    /\ WF_vars(RunAllTimer)

\* activeTab becomes tab.  When BenchmarkForm leaves the page the state of
\* its instance is gone (a later instance starts from useState), a timer
\* of runAllBenchmarks has nothing left to set, and a runAllBenchmarks
\* call that awaits goes on without a form.
FormAfter(tab) ==
    IF activeTab = "benchmark" /\ tab # "benchmark"
    THEN /\ runningBenchmark' = FALSE
         /\ progress' = Fraction(0, 1)
         /\ formPc' = IF formPc = "timer" THEN "idle" ELSE formPc
         /\ detached' = (formPc = "await")
    ELSE UNCHANGED <<runningBenchmark, progress, formPc, detached>>

\* setActiveTab(tab.id), called by Tabs
SelectTab ==
    /\ parent = "Home"
    /\ ~ResumeReady
    /\ \E tab \in tabs \ {activeTab} :
         /\ activeTab' = tab
         /\ FormAfter(tab)
    /\ UNCHANGED <<parent, formI, promises, onSubmit, homeResults, isLoading,
                   call, expected, faults, clicks, resultsVars, apiVars,
                   backVars>>

\* a click on the Run Test button of a predefined test: onSubmit(test)
RunTestClick ==
    /\ parent = "Home"
    /\ activeTab = "benchmark" /\ ~isLoading
    /\ ~ResumeReady
    /\ clicks < MaxClicks
    /\ clicks' = clicks + 1
    /\ \E k \in DOMAIN predefinedTests :
         runBenchmark(predefinedTests[k], homeResults)
    /\ UNCHANGED <<formVars, resultsVars, apiVars, backVars>>

\* catch (when something was thrown) and finally of runBenchmark; the
\* promise runAllBenchmarks awaits, if any, settles
Ends(threw) ==
    /\ isLoading' = FALSE
    /\ call' = [call EXCEPT !.pc = runBenchmark_settles(threw),
                            !.threw = threw]
    /\ promises' = [k \in DOMAIN promises |->
                       IF promises[k] = "pending"
                       THEN runBenchmark_settles(threw) ELSE promises[k]]

\* what can be out of order for a while: the network (a fetch rejects), the
\* server in front of the handlers (a fetch is answered with a status that
\* is not ok), the file system (the results file cannot be written)
Outages == {"network", "server", "disk"}

\* an outage begins
FaultBegins ==
    /\ faults.kind = "none"
    /\ faults.begun < MaxFaults
    /\ \E kind \in Outages :
         faults' = [begun |-> faults.begun + 1, kind |-> kind]
    /\ UNCHANGED <<homeResults, isLoading, activeTab, call, expected, clicks,
                   formVars, resultsVars, apiVars, backVars>>

\* the outage ends
FaultEnds ==
    /\ faults.kind # "none"
    /\ faults' = [faults EXCEPT !.kind = "none"]
    /\ UNCHANGED <<homeResults, isLoading, activeTab, call, expected, clicks,
                   formVars, resultsVars, apiVars, backVars>>

\* fetch('/api/benchmark') has settled: runBenchmark goes on to its second
\* fetch, or to catch and finally when the fetch rejected or the response
\* is not ok
BenchmarkReturns ==
    /\ call.pc = "benchmark"
    /\ IF faults.kind \in {"network", "server"}
       THEN /\ Ends(TRUE)
            /\ UNCHANGED <<resultsFile, status, nextId, apiVars, homeResults,
                           expected, activeTab>>
       ELSE /\ BenchmarkHandler("POST", [null |-> FALSE, type |-> call.type,
                                         storage |-> call.storage])
            /\ request'.fileWritten = (faults.kind # "disk")
            /\ LET newResult ==
                       [response'.record EXCEPT !.id = DateId(now)]
               IN /\ homeResults' = Append(call.results, newResult)
                  /\ expected' = Append(expected, newResult)
                  /\ call' = [call EXCEPT !.pc = "save",
                                          !.newResult = newResult]
            /\ UNCHANGED <<isLoading, activeTab, promises>>
    /\ UNCHANGED <<now, faults, clicks, parent, runningBenchmark, progress,
                   formPc, formI, onSubmit, detached, backVars>>

\* fetch('/api/results') has settled: the response is not looked at, the
\* results tab is shown; a rejected fetch goes to catch
SaveReturns ==
    /\ call.pc = "save"
    /\ IF faults.kind = "network"
       THEN /\ Ends(TRUE)
            /\ UNCHANGED <<resultsFile, status, nextId, apiVars, activeTab,
                           runningBenchmark, progress, formPc, detached>>
       ELSE /\ IF faults.kind = "server"
               THEN UNCHANGED <<resultsFile, status, nextId, apiVars>>
               ELSE /\ Post(call.newResult)
                    /\ request'.fileWritten = (faults.kind # "disk")
            /\ activeTab' = "results"
            /\ FormAfter("results")
            /\ Ends(FALSE)
    /\ UNCHANGED <<now, faults, clicks, parent, formI, onSubmit, homeResults,
                   expected, backVars>>

DashboardNext ==
    \/ RunAllClick
    \/ RunAllResume
    \/ RunAllTimer
    \/ RunTestClick
    \/ SelectTab
    \/ BenchmarkReturns
    \/ SaveReturns
    \/ FaultBegins
    \/ FaultEnds
    \/ Tick

\* the dashboard: Home renders the form
DashboardInit ==
    /\ impl = "map"
    /\ EngineInit
    /\ ResultsInit
    /\ WebInit
    /\ FormInit("Home")

SpecDashboard == DashboardInit /\ [][DashboardNext]_vars

TypeOK ==
    /\ impl \in Impls
    /\ pc \in {"idle", "set", "populate", "read", "prepopulate", "mixed",
               "finish", "done", "split"}
    /\ runs \in 0 .. MaxRuns


(* ----------------------------- properties ----------------------------- *)
Selected == StorageImpl(config.storage)
Other == IF Selected = "redis" THEN "db" ELSE "redis"
AllCached == <<"1", ":", "0">>
AllUncached == <<"0", ":", "1">>
BothZero == <<"0", ":", "0">>
\* the maps of the loaded cached tier
HotCache == IF impl = "map" THEN redisCache ELSE kvRedis.cache
BackingStore == IF impl = "map" THEN redisStore ELSE kvRedis.store
NoCallIssued == \A t \in Tiers : setCalls[t] = 0 /\ getCalls[t] = 0

\* C1: in a 'set' run with requests = N > 0, on either tier and in both
\* implementations, no get call is ever issued on any tier and no set call
\* on the tier not selected, and when the run has returned exactly N set
\* calls were issued on the selected tier.
C1_SetRunIssuesNSets ==
    (config.type = "set" /\ config.requests > 0 /\ pc \in {"set", "done"}) =>
        /\ \A t \in Tiers : getCalls[t] = 0
        /\ setCalls[Other] = 0
        /\ setCalls[Selected] <= config.requests
        /\ (pc = "done" => /\ setCalls[Selected] = config.requests
                           /\ setsDone = config.requests)

C1_Witness ==
    /\ pc = "done" /\ config.type = "set" /\ config.requests > 1
    /\ setCalls[Selected] = config.requests

\* C2: in a 'get' run of mockKVService.js with requests = N, a get call is
\* issued only after all N set calls have been issued and have completed,
\* the key of every get call was written by this run, every completed get
\* returns a value (never null), and when the run has returned exactly N
\* set calls and N get calls were issued.
C2_GetRunPopulatesThenReads ==
    (impl = "map" /\ config.type = "get" /\ pc \in {"populate", "read", "done"})
    =>  /\ (getCalls[Selected] > 0 =>
               setCalls[Selected] = config.requests
               /\ setsDone = config.requests)
        /\ (op.kind = "get" => op.key \in written)
        /\ (op.kind = "get" /\ op.state = "done" => op.ret.tag = "value")
        /\ setCalls[Other] = 0 /\ getCalls[Other] = 0
        /\ (pc = "done" => /\ setCalls[Selected] = config.requests
                           /\ getCalls[Selected] = config.requests)

C2_Witness ==
    /\ impl = "map" /\ pc = "done" /\ config.type = "get"
    /\ config.requests > 1 /\ getCalls[Selected] = config.requests
    /\ op.kind = "get" /\ op.ret.tag = "value"

\* C3: in the mixed loop, for every request count and every valid ratio,
\* setCount <= setOps and getCount <= getOps at every iteration, and when
\* the loop has ended setCount + getCount = requests, whatever was drawn.
C3_MixedQuotas ==
    (config.type = "mixed" /\ ValidRatio(config.ratio)
     /\ pc \in {"mixed", "done"})
    =>  /\ ~setOps.nan /\ ~getOps.nan
        /\ setCount <= setOps.v
        /\ getCount <= getOps.v
        /\ (pc = "done" => setCount + getCount = config.requests)

C3_Witness ==
    /\ pc = "done" /\ config.type = "mixed" /\ config.requests > 1
    /\ config.ratio = <<"1", ":", "1">>
    /\ setCount = setOps.v /\ getCount = getOps.v
    /\ setCount > 0 /\ getCount > 0

C5_CachedTierGet ==
    (impl = "map" /\ op.kind = "get" /\ op.tier = "redis") =>
        IF MapHas(redisCache, op.key)
        THEN /\ op.delay = simulationConfig.networkJitterMs
             /\ (op.state = "done" => op.ret = Val(redisCache[op.key]))
        ELSE /\ op.delay = simulationConfig.redisLatencyMs
             /\ (op.state = "done" =>
                    op.ret = IF MapHas(redisStore, op.key)
                             THEN Val(redisStore[op.key]) ELSE Null)

C5_Witness ==
    /\ impl = "map" /\ op.kind = "get" /\ op.tier = "redis"
    /\ op.state = "done" /\ MapHas(redisCache, op.key)
    /\ op.delay = simulationConfig.networkJitterMs
    /\ op.ret = Val(redisCache[op.key])

\* C6: in a run of mockKVService.js on the cached tier with cachedRatio
\* '1:0' every write is marked cacheable, and in a 'get' run every read
\* finds its key in the hot cache and awaits the jitter delay only.
C6_AllCachedRatio ==
    (impl = "map" /\ config.storage = "redis" /\ config.cachedRatio = AllCached)
    =>  /\ (op.kind = "set" => op.cached)
        /\ (config.type = "get" /\ op.kind = "get" =>
               /\ MapHas(redisCache, op.key)
               /\ op.delay = simulationConfig.networkJitterMs)

C6_Witness ==
    /\ impl = "map" /\ config.storage = "redis"
    /\ config.cachedRatio = AllCached /\ config.type = "get"
    /\ op.kind = "get" /\ op.state = "done" /\ MapHas(redisCache, op.key)
    /\ op.delay = simulationConfig.networkJitterMs

\* C7: in a run on the cached tier with cachedRatio '0:1' no write is marked
\* cacheable and no read takes the cache-hit path, whatever earlier runs
\* (of valid configs) cached.
C7_AllUncachedRatio ==
    (allValid /\ config.storage = "redis" /\ config.cachedRatio = AllUncached)
    =>
        /\ (op.kind = "set" => ~op.cached)
        /\ (op.kind = "get" => ~op.hit)

\* C8: a run whose type is none of get, set, mixed (its config being valid
\* otherwise) returns no result record and issues no storage call.
C8_InvalidTypeRejected ==
    (pc = "done" /\ config.type \notin Types /\ config.requests > 0
     /\ config.size > 0 /\ ValidRatio(config.cachedRatio)) =>
        ~result.returned /\ NoCallIssued

\* C9: a run with requests <= 0 or size <= 0 (its config being valid
\* otherwise) returns no result record.
C9_NonPositiveRejected ==
    (pc = "done" /\ (config.requests <= 0 \/ config.size <= 0)
     /\ config.type \in Types /\ ValidRatio(config.ratio)
     /\ ValidRatio(config.cachedRatio)) =>
        ~result.returned

\* C10: a run whose ratio or cachedRatio is '0:0' (its config being valid
\* otherwise) issues no storage call, so that the stores and the hot cache
\* stay as they were, and returns no result record.
C10_BothZeroRejected ==
    (pc # "idle" /\ (config.ratio = BothZero \/ config.cachedRatio = BothZero)
     /\ config.type \in Types /\ config.requests > 0 /\ config.size > 0)
    =>  NoCallIssued /\ ~result.returned

\* C11: the opsPerSecond of the result of a run of a valid config is finite
\* and non-negative, whatever non-negative duration was measured, a
\* duration of 0 included.
C11_OpsPerSecondFinite ==
    (pc = "done" /\ ValidConfig(config)) =>
        /\ result.opsPerSecond.kind = "finite"
        /\ result.opsPerSecond.num >= 0 /\ result.opsPerSecond.den > 0

\* C12: within one runBenchmark call at most one storage call is in flight:
\* a call is in flight exactly while the run is suspended on it, and every
\* call issued before it has returned.
C12_OneCallInFlight ==
    /\ inFlight <= 1
    /\ (inFlight = 1 <=> op.state = "pending")
    /\ setsDone = setCalls["redis"] + setCalls["db"]
                    - (IF op.state = "pending" /\ op.kind = "set" THEN 1
                       ELSE 0)

C12_Witness ==
    /\ inFlight = 1 /\ op.state = "pending" /\ setsDone >= 1
    /\ setCalls[Selected] >= 2

\* C13: the result of a run of a valid config has requests equal to the
\* request count of the config and size equal to its payload size.
C13_RequestsAndSizeEchoed ==
    (pc = "done" /\ ValidConfig(config)) =>
        /\ result.requests = Num(config.requests)
        /\ result.size = Num(config.size)

C13_Witness ==
    /\ pc = "done" /\ ValidConfig(config) /\ result.returned
    /\ config.requests # config.size
    /\ result.requests = Num(config.requests)

\* C14: the cachedRatio of the result of a run of a valid config is '0:1'
\* when the tier is the uncached one, whatever cachedRatio the config
\* carried, and the cachedRatio of the config when the tier is the cached
\* one.
C14_ResultCachedRatio ==
    (pc = "done" /\ ValidConfig(config)) =>
        result.cachedRatio = IF config.storage = "db" THEN AllUncached
                             ELSE config.cachedRatio

\* C15: in a mixed run with a valid ratio, setOps is
\* floor(requests * setWeight / (setWeight + getWeight)) and getOps is
\* requests - setOps, so that setOps + getOps = requests and both are in
\* 0 .. requests.
C15_MixedSplit ==
    (pc = "split" /\ ValidRatio(config.ratio)) =>
        LET setWeight == ParseRatio(config.ratio)[1]
            getWeight == ParseRatio(config.ratio)[2]
        IN /\ ~setOps.nan /\ ~getOps.nan
           /\ setOps.v = (config.requests * setWeight)
                            \div (setWeight + getWeight)
           /\ getOps.v = config.requests - setOps.v
           /\ setOps.v + getOps.v = config.requests
           /\ setOps.v \in 0 .. config.requests
           /\ getOps.v \in 0 .. config.requests

\* the set calls a mixed run issued in its pre-populate loop
Prepopulated == setCalls[Selected] - setCount
Min(a, b) == IF a <= b THEN a ELSE b

\* C16 (as stated): before the mixed loop a mixed run with a valid ratio
\* issues exactly min(getOps, requests / 2) pre-population set calls, on
\* the keys of indexes 0, 1, ... in this order.
C16_PrepopulateExact ==
    (config.type = "mixed" /\ ValidRatio(config.ratio)
     /\ pc \in {"mixed", "done"})
    =>  /\ 2 * Prepopulated = Min(2 * getOps.v, config.requests)
        /\ \A k \in 0 .. (Prepopulated - 1) : RunKey(k) \in written

\* C16 (amended): before the mixed loop a mixed run with a valid ratio
\* issues exactly ceil(min(getOps, requests / 2)) pre-population set
\* calls, that is min(getOps, (requests + 1) div 2), and nothing else, on
\* the keys of indexes 0, 1, ... in this order.
C16_PrepopulateCeil ==
    (config.type = "mixed" /\ ValidRatio(config.ratio))
    =>  /\ (pc = "prepopulate" =>
               /\ setCalls[Selected] = i
               /\ written = {RunKey(k) : k \in 0 .. (i - 1)}
               /\ \A t \in Tiers : getCalls[t] = 0)
        /\ (pc \in {"mixed", "done"} =>
               /\ Prepopulated
                    = Min(getOps.v, (config.requests + 1) \div 2)
               /\ \A k \in 0 .. (Prepopulated - 1) : RunKey(k) \in written)

C16_Witness ==
    /\ config.type = "mixed" /\ ValidRatio(config.ratio) /\ pc = "mixed"
    /\ config.requests % 2 = 1 /\ Prepopulated = 1
    /\ RunKey(0) \in written /\ setsDone = 1

\* C17: the keys a 'get' run (of a valid config) populates and reads are
\* those of a 'set' run: every storage call of the run is on one of
\* "benchmark:0" .. "benchmark:N-1", and when the run has returned it has
\* written exactly these keys.
C17_GetRunKeys ==
    (config.type = "get" /\ ValidConfig(config)
     /\ pc \in {"populate", "read", "done"})
    =>  /\ (op.kind # "none" =>
               op.key \in {KeyOf("set", k) : k \in 0 .. (config.requests - 1)})
        /\ (pc = "done" =>
               written = {KeyOf("set", k) : k \in 0 .. (config.requests - 1)})

\* the backing store of a tier of the loaded implementation
StoreOf(tier) ==
    IF tier = "redis" THEN BackingStore
    ELSE IF impl = "map" THEN dbStore ELSE kvDb.store

\* C18: the tiers are shared by the runs of a process and runBenchmark never
\* clears one: every key whose set call has completed, in this run or in
\* an earlier one, is in the backing store of its tier.
C18_WritesPersistAcrossRuns ==
    \A t \in Tiers : \A k \in wrote[t] : MapHas(StoreOf(t), k)

C18_Witness ==
    /\ runs = 2 /\ pc \in {"set", "populate", "prepopulate"} /\ NoCallIssued
    /\ wrote[Selected] # {}
    /\ \A k \in wrote[Selected] : MapHas(StoreOf(Selected), k)

\* C19: after any sequence of POST and DELETE requests and of benchmark
\* runs of the dashboard, no two records of the results file have the
\* same id.
C19_UniqueIds ==
    \A a \in 1 .. Len(resultsFile), b \in 1 .. Len(resultsFile) :
        a # b => resultsFile[a].id # resultsFile[b].id

\* C20: a del(key) that has returned returned true exactly when the key
\* was in the backing store of its tier, and the key is then neither in
\* that backing store nor, on the cached tier, in the hot cache; a
\* flushAll that has returned leaves both maps of the cached tier empty and
\* a clear leaves the backing store of the uncached tier empty.
C20_DelAndClear ==
    /\ (op.state = "done" /\ op.kind = "del") =>
           /\ op.ret = (IF op.hadKey THEN True ELSE False)
           /\ ~MapHas(StoreOf(op.tier), op.key)
           /\ (op.tier = "redis" => ~MapHas(HotCache, op.key))
    /\ (op.state = "done" /\ op.kind = "clear") =>
           /\ StoreOf(op.tier) = EmptyMap
           /\ (op.tier = "redis" => HotCache = EmptyMap)

C20_Witness ==
    /\ op.state = "done" /\ op.kind = "del" /\ op.tier = "redis"
    /\ op.hadKey /\ op.wasCached /\ op.ret = True
    /\ ~MapHas(redisStore, op.key) /\ ~MapHas(redisCache, op.key)
    /\ redisStore # EmptyMap

\* C21: in the mixed loop, an iteration that starts with setCount >= setOps
\* issues a GET and an iteration that starts with getCount >= getOps issues
\* a SET, whatever is drawn.
C21_QuotaShortCircuit ==
    [][(pc = "mixed" /\ i' = i + 1) =>
          /\ (Ge(Num(setCount), setOps) => op'.kind = "get")
          /\ (Ge(Num(getCount), getOps) => op'.kind = "set")]_vars

C21_Witness ==
    /\ pc = "mixed" /\ i = 2 /\ config.ratio = <<"1", ":", "1">>
    /\ op.kind = "set" /\ setCount = 1
    /\ getCount = getOps.v /\ getCount = 1

\* C26: on KVRedis a get(key) made after a set(key, v, cached) has
\* completed, with no other write to the key in between, returns v.  (The
\* store holds the value of the last set on the key.)
C26_ReadYourWrites ==
    (impl = "class" /\ op.kind = "get" /\ op.tier = "redis"
     /\ op.state = "done" /\ MapHas(kvRedis.store, op.key))
    => op.ret = Val(kvRedis.store[op.key])

\* the records of a file that have the id / that have another id
WithId(file, id) == SelectSeq(file, LAMBDA r : r.id = id)
WithoutId(file, id) == SelectSeq(file, LAMBDA r : r.id # id)

\* C22: a POST to the benchmark handler with type and storage is answered
\* 200 with a result holding all eleven fields, and that result is appended
\* to the results file, however the external command ended; a POST without
\* type or storage is answered 400 and another method 405, and neither
\* changes the file.
C22_BenchmarkPost ==
    request.handler = "benchmark" =>
        IF request.method # "POST"
        THEN status = 405 /\ resultsFile = request.before
        ELSE IF request.null \/ request.type = "" \/ request.storage = ""
        THEN status = 400 /\ resultsFile = request.before
        ELSE /\ status = 200
             /\ response.keys = ResultKeys
             /\ resultsFile = Append(request.before, response.record)

C25_CacheWithinStore ==
    \A k \in DOMAIN redisCache :
        MapHas(redisStore, k) /\ redisStore[k] = redisCache[k]

C25_Witness ==
    \E k \in TierKeys :
        /\ MapHas(redisCache, k)
        /\ callers[1] = [NoCall EXCEPT !.kind = "del", !.key = k]
        /\ callers[2] = [NoCall EXCEPT !.kind = "setCached", !.key = k,
                                       !.cached = TRUE]

\* a promise that is no longer pending
Outcomes == {"fulfilled", "rejected"}

\* the tests runAllBenchmarks has submitted are the first ones of the list,
\* and a test is submitted only when no earlier one is still pending
OneAtATimeInOrder ==
    \A k \in DOMAIN promises :
        promises[k] # "none" =>
            \A j \in 1 .. (k - 1) : promises[j] \in Outcomes

\* C24: runAllBenchmarks submits the six predefined tests in list order,
\* each only after the promise of the one before has settled; when that
\* promise has settled, fulfilled or rejected, the next test is submitted;
\* and once the last has settled runningBenchmark becomes false and
\* progress 0.
C24_RunAllBenchmarks ==
    /\ [](OneAtATimeInOrder
          /\ (formPc = "timer" => \A k \in DOMAIN promises :
                                     promises[k] \in Outcomes))
    /\ \A k \in 1 .. (Len(predefinedTests) - 1) :
          (formPc = "await" /\ formI = k - 1 /\ promises[k] \in Outcomes)
              ~> (promises[k + 1] # "none")
    /\ (formPc = "await" /\ formI = Len(predefinedTests) - 1
        /\ promises[Len(predefinedTests)] \in Outcomes)
           ~> (~runningBenchmark /\ progress = Fraction(0, 1))

C24_Witness ==
    /\ parent = "other" /\ formPc = "idle" /\ formI = Len(predefinedTests)
    /\ ~runningBenchmark /\ progress = Fraction(0, 1)
    /\ promises[1] = "rejected" /\ promises[2] = "fulfilled"
    /\ promises[5] = "rejected" /\ promises[6] = "fulfilled"

\* C27: a run started from the dashboard whose two requests both succeeded
\* has added exactly one record to the results file.
C27_OneRecordPerRun ==
    (call.pc = "fulfilled" /\ ~call.threw
     /\ request.handler = "results" /\ status = 201)
    => Len(resultsFile) = call.before + 1

\* C28: the results list of the dashboard is what it was at first followed
\* by the result of every run that got one, in the order of the runs.
C28_ResultsAccumulate == homeResults = expected

\* C30: isLoading is true while a runBenchmark call is in progress and
\* false once it has ended, however it ended, and the promise of the call
\* is never rejected.
C30_IsLoading ==
    /\ call.pc \in {"benchmark", "save"} => isLoading
    /\ call.pc \in {"fulfilled", "rejected"} => ~isLoading
    /\ call.pc # "rejected"

C30_Witness ==
    /\ call.pc = "fulfilled" /\ call.threw /\ ~isLoading
    /\ call.newResult # NoRecord
    /\ promises[3] = "fulfilled" /\ promises[4] = "none"

====
